---- MODULE Spec2Model ----
(***************************************************************************)
(* The audio cue engine of the workout app: the playback managers          *)
(* (useWorkoutSounds, useWaterSounds, useRestTimerSound), their mount and  *)
(* unmount effects, and the platform audio operations they start           *)
(* (Audio.setAudioModeAsync, Sound.unloadAsync, Audio.Sound.createAsync).  *)
(* A play*() call is an async function: it runs up to its first await in   *)
(* the step that issues it and continues when the platform settles the     *)
(* awaited operation, so calls of one instance interleave at the awaits.   *)
(* The WAV generators that compute the module-level sound constants are    *)
(* modelled as a second machine (SpecWav): one generator call, its header  *)
(* writes and its sample loop.                                             *)
(***************************************************************************)
EXTENDS Integers, Sequences, FiniteSets, TLC

\* The number of play*() calls issued in one behaviour (over all instances).
MaxCalls == 3

(***************************************************************************)
(* Hooks, instances, events, assets                                        *)
(***************************************************************************)

\* The mounted hook instances: ActiveWorkoutScreen's useWorkoutSounds,
\* HomeScreen's and WaterTrackerScreen's useWaterSounds, and one
\* useRestTimerSound.
Managers == {"workout", "waterHome", "waterTracker", "rest"}

WaterManagers == {"waterHome", "waterTracker"}

\* The three hook files share no module-level state (each declares only its
\* own WAV constants), so one behaviour follows the instances of one hook:
\* the workout manager, the two water managers, or a useRestTimerSound.
Scopes == {{"workout"}, WaterManagers, {"rest"}}

HookOf(m) ==
  CASE m = "workout" -> "useWorkoutSounds"
    [] m \in WaterManagers -> "useWaterSounds"
    [] OTHER -> "useRestTimerSound"

\* The trigger functions each hook returns.
EventsOf(m) ==
  CASE HookOf(m) = "useWorkoutSounds" ->
         {"playCountdown", "playWorkoutStart", "playLastThree",
          "playRestStart", "playNextSet", "playFinish"}
    [] HookOf(m) = "useWaterSounds" -> {"playDrop", "playGoalReached"}
    [] OTHER -> {"playBeep", "playComplete"}

\* The module-level WAV constant each trigger passes to the platform.
WavOf(e) ==
  CASE e = "playCountdown" -> "COUNTDOWN_WAV"
    [] e = "playWorkoutStart" -> "STRONG_BEEP_WAV"
    [] e = "playLastThree" -> "FAST_BEEP_WAV"
    [] e = "playRestStart" -> "CALM_TONE_WAV"
    [] e = "playNextSet" -> "STRONG_BEEP_WAV"
    [] e = "playFinish" -> "SUCCESS_CHIME_WAV"
    [] e = "playDrop" -> "DROP_WAV"
    [] e = "playGoalReached" -> "GOAL_CHIME_WAV"
    [] e = "playBeep" -> "BEEP_WAV"
    [] OTHER -> "COMPLETE_WAV"

WavAssets ==
  {"COUNTDOWN_WAV", "STRONG_BEEP_WAV", "FAST_BEEP_WAV", "CALM_TONE_WAV",
   "SUCCESS_CHIME_WAV", "DROP_WAV", "GOAL_CHIME_WAV", "BEEP_WAV",
   "COMPLETE_WAV"}

\* Faulty variant of RenderGenerates: the hook body builds its WAV data
\* itself, on every render.
RenderGeneratesInline(m) == {WavOf(e) : e \in EventsOf(m)}

\* The generator calls the body of a hook makes each time it renders: none,
\* the assets are module-level constants.
RenderGenerates(m) == {}

\* The refs (useRef cells) an instance holds.
RefsOf(m) ==
  IF HookOf(m) = "useRestTimerSound"
    THEN {<<m, "beepSoundRef">>, <<m, "completeSoundRef">>}
    ELSE {<<m, "soundRef">>}

Cells == UNION {RefsOf(m) : m \in Managers}

\* Faulty variant of RefCell: one module-level variable that all instances
\* of a hook share.
RefCellShared(m, e) ==
  CHOOSE r \in Cells : HookOf(r[1]) = HookOf(m) /\ r[1] # "waterTracker"
                       /\ r[2] # "completeSoundRef"

\* The ref a trigger of instance m reads and writes: a useRef of the
\* instance.
RefCell(m, e) ==
  IF HookOf(m) = "useRestTimerSound"
    THEN IF e = "playBeep" THEN <<m, "beepSoundRef">>
                           ELSE <<m, "completeSoundRef">>
    ELSE <<m, "soundRef">>

\* soundEnabled of ActiveWorkoutScreen; the water screens pass no options and
\* take the default.
EnabledOption(m, pref, opt) ==
  CASE m = "workout" -> pref # "off"
    [] m \in WaterManagers -> TRUE
    [] OTHER -> opt

\* Faulty variant of Gate: playSound without the enabled test.
GateMissing(en) == FALSE

\* The early return of playSound: if (!enabled) return.
Gate(en) == ~en

\* Faulty variant of OnReject: the unloadAsync awaited outside the try block.
OnRejectUnloadOutsideTry(step) ==
  IF step = "unload" THEN "rejected" ELSE "resolved"

\* What a play*() call's promise does when an awaited operation rejects: the
\* catch block discards the error.
OnReject(step) == "resolved"

\* The body of playSound's catch block: the number of lines it writes to a
\* diagnostic sink for the error it caught. The block holds a comment only.
CatchLogs(step) == 0

\* Callers that can reach a trigger after their screen has unmounted: the
\* water handlers call it after an await and from a 300 ms timeout.
CanCallAfterUnmount(m) == m \in WaterManagers

(***************************************************************************)
(* State                                                                   *)
(***************************************************************************)
VARIABLES
  scope,         \* the hook instances this behaviour follows
  soundEffects,  \* user.preferences.soundEffects: "on", "off"
  generated,     \* per WAV constant, how often its generator has run
  lifecycle,     \* per instance: "unmounted", "mounted", "disposed"
  enabled,       \* per instance: the enabled option of its latest render
  audioSession,  \* the platform audio subsystem: "available", "unavailable"
  audioMode,     \* per instance: how its setAudioModeAsync settled: "none", "ok", "failed"
  soundRef,      \* per ref: the voice it holds, 0 for null
  calls,         \* the play*() calls issued so far, in call order; uri is
                 \* 0 until the call has passed a WAV value to createAsync
  voices,        \* per voice (named by the call that created it): its state
  unloads,       \* per voice: how many unloadAsync it has received
  cleanup        \* per ref: the unloadAsync the unmount cleanup started

\* One call of a WAV generator.
VARIABLES
  gen,           \* the generator call: function and arguments, NoCall before it
  status,        \* "idle", "running", "returned", "threw"
  numSamples,    \* the generator's sample count (numSamples / totalSamples)
  view,          \* the DataView: byteLength of its buffer and the 44 header bytes
  i,             \* the sample loop's index
  written        \* the latest sample the loop has written, NoSample before it

playbackVars ==
  <<scope, soundEffects, generated, lifecycle, enabled, audioSession, audioMode,
    soundRef, calls, voices, unloads, cleanup>>

wavVars == <<gen, status, numSamples, view, i, written>>

\* One useTimer instance and the component that owns it.
VARIABLES
  options,       \* the options the component passes to useTimer, and which
                 \* useTimer it calls
  life,          \* the owning component: "unmounted", "mounted", "gone"
  time,          \* the time of the latest committed render
  isRunning,     \* the isRunning of the latest committed render
  hook,          \* the hook's cells: the two React states with their queued
                 \* updates applied, intervalRef.current, the intervals
                 \* scheduled with the platform, completedRef.current
  isResting,     \* ActiveWorkoutScreen's isResting state
  out,           \* the callbacks and cue triggers invoked since the latest
                 \* start(), in order
  run,           \* the latest start(): "none", "running", "interrupted"
                 \* (paused, stopped, reset or unmounted since), "completed"
  top,           \* the value time was last set to (initialTime or setTime)
  handlers       \* how many event handlers have run

timerVars ==
  <<options, life, time, isRunning, hook, isResting, out, run, top, handlers>>

vars == <<playbackVars, wavVars, timerVars>>

CallIds == 1..MaxCalls

NoCleanup == [target |-> 0, status |-> "none"]

NoCall == [fn |-> "none"]

NoView == [byteLength |-> 0, header |-> <<>>]

NoSample == [index |-> -1]

\* No generator is running: the module constants have been computed.
WavIdle ==
  /\ gen = NoCall
  /\ status = "idle"
  /\ numSamples = 0
  /\ view = NoView
  /\ i = 0
  /\ written = NoSample

\* The useTimer options of a behaviour that follows no timer.
NoOptions ==
  [copy |-> "none", use |-> "none", initialTime |-> 0, countdown |-> FALSE,
   autoStart |-> FALSE]

\* The cells of a useTimer that has not rendered yet.
NoHook ==
  [timeState |-> 0, runningState |-> FALSE, intervalRef |-> 0,
   intervals |-> {}, completedRef |-> FALSE]

\* No component with a timer is followed.
TimerIdle ==
  /\ options = NoOptions
  /\ life = "unmounted"
  /\ time = 0
  /\ isRunning = FALSE
  /\ hook = NoHook
  /\ isResting = FALSE
  /\ out = <<>>
  /\ run = "none"
  /\ top = 0
  /\ handlers = 0

\* The state before any hook instance has mounted, whatever the stored
\* preference.
InitPlayback ==
  /\ scope \in Scopes
  /\ generated = [a \in WavAssets |-> 1]
  /\ lifecycle = [m \in Managers |-> "unmounted"]
  /\ enabled = [m \in Managers |-> TRUE]
  /\ audioSession \in {"available", "unavailable"}
  /\ audioMode = [m \in Managers |-> "none"]
  /\ soundRef = [r \in Cells |-> 0]
  /\ calls = <<>>
  /\ voices = [v \in CallIds |-> "none"]
  /\ unloads = [v \in CallIds |-> 0]
  /\ cleanup = [r \in Cells |-> NoCleanup]
  /\ WavIdle

\* A new user: the default preferences have soundEffects true.
Init == InitPlayback /\ soundEffects = "on" /\ TimerIdle

\* A returning user: loadUser restores the stored preference, on or off.
InitPreference == InitPlayback /\ soundEffects \in {"on", "off"} /\ TimerIdle


(***************************************************************************)
(* Helpers over the call list                                              *)
(***************************************************************************)
InFlight(c) == calls[c].pc \in {"unloading", "creating"}

\* The calls of instance m that have not completed.
InFlightOf(m) == {c \in DOMAIN calls : calls[c].mgr = m /\ InFlight(c)}

LoadedOf(m) ==
  {v \in DOMAIN calls : calls[v].mgr = m /\ voices[v] = "loaded"}

\* createAsync as playSound issues it: the data URI built from the value of
\* the trigger's WAV constant, named here by the generator run that computed
\* it. The call does not read its wavBase64 argument afterwards.
CreateRequest(c) ==
  [c EXCEPT !.pc = "creating", !.uri = generated[WavOf(c.event)],
            !.event = "", !.target = 0]

\* A call's record once its promise has settled: its locals are gone.
Settled(c, outcome, why) ==
  [c EXCEPT !.pc = outcome, !.failed = why, !.event = "", !.ref = <<>>,
            !.target = 0, !.overlaps = {}]

(***************************************************************************)
(* The preference store and the screens                                    *)
(***************************************************************************)

\* UserContext.updateUser / loadUser: the preference changes and every
\* mounted screen renders again with it.
SetSoundEffects(v) ==
  /\ "workout" \in scope
  /\ v # soundEffects
  /\ soundEffects' = v
  /\ enabled' = [m \in Managers |->
                   IF lifecycle[m] = "mounted"
                     THEN EnabledOption(m, v, enabled[m])
                     ELSE enabled[m]]
  /\ UNCHANGED <<scope, generated, lifecycle, audioSession, audioMode, soundRef, calls, voices,
                 unloads, cleanup>>
  /\ UNCHANGED <<wavVars, timerVars>>

\* First render and mount effect of a hook instance: the refs start null and
\* the effect calls setAudioModeAsync, which rejects when the platform audio
\* subsystem is unavailable; .catch(() => {}) discards the rejection and the
\* hook keeps nothing of it.
Mount(m, opt) ==
  /\ lifecycle[m] = "unmounted"
  /\ m \in scope
  /\ lifecycle' = [lifecycle EXCEPT ![m] = "mounted"]
  /\ enabled' = [enabled EXCEPT ![m] = EnabledOption(m, soundEffects, opt)]
  /\ audioMode' = [audioMode EXCEPT ![m] = IF audioSession = "available" THEN "ok" ELSE "failed"]
  /\ generated' = [a \in WavAssets |->
                     IF a \in RenderGenerates(m) THEN generated[a] + 1
                                                 ELSE generated[a]]
  /\ UNCHANGED <<scope, soundEffects, audioSession, soundRef, calls, voices, unloads,
                 cleanup>>
  /\ UNCHANGED <<wavVars, timerVars>>

\* The effect cleanup: ref.current?.unloadAsync().catch(() => {}) for each ref
\* of the instance. It neither clears the ref nor marks the instance disposed
\* for the calls in flight.
Unmount(m) ==
  /\ lifecycle[m] = "mounted"
  /\ lifecycle' = [lifecycle EXCEPT ![m] = "disposed"]
  /\ cleanup' = [r \in Cells |->
                   IF r \in RefsOf(m) /\ soundRef[r] # 0
                     THEN [target |-> soundRef[r], status |-> "pending"]
                     ELSE cleanup[r]]
  /\ unloads' = [v \in CallIds |->
                   IF \E r \in RefsOf(m) : soundRef[r] = v
                     THEN unloads[v] + Cardinality({r \in RefsOf(m) : soundRef[r] = v})
                     ELSE unloads[v]]
  /\ UNCHANGED <<scope, soundEffects, generated, enabled, audioSession, audioMode, soundRef, calls,
                 voices>>
  /\ UNCHANGED <<wavVars, timerVars>>

\* The cleanup's unloadAsync settles.
CleanupSettle(r, ok) ==
  /\ cleanup[r].status = "pending"
  /\ cleanup' = [cleanup EXCEPT ![r].status = IF ok THEN "resolved" ELSE "rejected"]
  /\ voices' = IF ok /\ voices[cleanup[r].target] = "loaded"
                 THEN [voices EXCEPT ![cleanup[r].target] = "unloaded"]
                 ELSE voices
  /\ UNCHANGED <<scope, soundEffects, generated, lifecycle, enabled, audioSession, audioMode,
                 soundRef, calls, unloads>>
  /\ UNCHANGED <<wavVars, timerVars>>

(***************************************************************************)
(* playSound                                                               *)
(***************************************************************************)

\* A trigger is called: playSound runs to its first await.
playSound(m, e) ==
  LET id == Len(calls) + 1
      ref == RefCell(m, e)
      base == [mgr |-> m, event |-> e, ref |-> ref, uri |-> 0,
               pc |-> "creating", target |-> 0, enabledAtCall |-> enabled[m],
               failed |-> "none", overlaps |-> InFlightOf(m)]
  IN
  /\ id <= MaxCalls
  /\ e \in EventsOf(m)
  /\ \/ lifecycle[m] = "mounted"
     \/ lifecycle[m] = "disposed" /\ CanCallAfterUnmount(m)
  /\ IF Gate(enabled[m])
       THEN /\ calls' = Append(calls, Settled(base, "resolved", "none"))
            /\ UNCHANGED unloads
       ELSE IF soundRef[ref] # 0
         THEN /\ calls' = Append(calls, [base EXCEPT !.pc = "unloading",
                                                      !.target = soundRef[ref]])
              /\ unloads' = [unloads EXCEPT ![soundRef[ref]] = @ + 1]
         ELSE /\ calls' = Append(calls, CreateRequest(base))
              /\ UNCHANGED unloads
  /\ UNCHANGED <<scope, soundEffects, generated, lifecycle, enabled, audioSession, audioMode,
                 soundRef, voices, cleanup>>
  /\ UNCHANGED <<wavVars, timerVars>>

\* The awaited unloadAsync of call c settles: on success playSound goes on to
\* createAsync, on rejection to the catch block.
UnloadSettle(c, ok) ==
  /\ c \in DOMAIN calls
  /\ calls[c].pc = "unloading"
  /\ IF ok
       THEN /\ voices' = IF voices[calls[c].target] = "loaded"
                           THEN [voices EXCEPT ![calls[c].target] = "unloaded"]
                           ELSE voices
            /\ calls' = [calls EXCEPT ![c] = CreateRequest(@)]
       ELSE /\ calls' = [calls EXCEPT ![c] = Settled(@, OnReject("unload"), "unload")]
            /\ UNCHANGED voices
  /\ UNCHANGED <<scope, soundEffects, generated, lifecycle, enabled, audioSession, audioMode,
                 soundRef, unloads, cleanup>>
  /\ UNCHANGED <<wavVars, timerVars>>

\* The awaited createAsync of call c settles: on success the new sound is
\* loaded and playing and soundRef.current = sound.
CreateSettle(c, ok) ==
  /\ c \in DOMAIN calls
  /\ calls[c].pc = "creating"
  /\ IF ok
       THEN /\ voices' = [voices EXCEPT ![c] = "loaded"]
            /\ soundRef' = [soundRef EXCEPT ![calls[c].ref] = c]
            /\ calls' = [calls EXCEPT ![c] = Settled(@, "resolved", "none")]
       ELSE /\ calls' = [calls EXCEPT ![c] = Settled(@, OnReject("create"), "create")]
            /\ UNCHANGED <<voices, soundRef>>
  /\ UNCHANGED <<scope, soundEffects, generated, lifecycle, enabled, audioSession, audioMode,
                 unloads, cleanup>>
  /\ UNCHANGED <<wavVars, timerVars>>

Next ==
  \/ \E v \in {"on", "off"} : SetSoundEffects(v)
  \/ \E m \in Managers, opt \in BOOLEAN : Mount(m, opt)
  \/ \E m \in Managers : Unmount(m)
  \/ \E r \in Cells, ok \in BOOLEAN : CleanupSettle(r, ok)
  \/ \E m \in Managers, e \in UNION {EventsOf(x) : x \in Managers} : playSound(m, e)
  \/ \E c \in CallIds, ok \in BOOLEAN : UnloadSettle(c, ok)
  \/ \E c \in CallIds, ok \in BOOLEAN : CreateSettle(c, ok)

Spec == Init /\ [][Next]_vars

\* The playback managers for any stored preference.
SpecPreference == InitPreference /\ [][Next]_vars

(***************************************************************************)
(* Properties of the playback managers                                     *)
(***************************************************************************)
SingleVoiceManagers == {m \in Managers : HookOf(m) # "useRestTimerSound"}

\* The calls of instance m, in call order.
CallsOf(m) == {c \in DOMAIN calls : calls[c].mgr = m}

\* C1: for one useWaterSounds or useWorkoutSounds instance, the number of
\* platform sounds created and not yet unloaded is never greater than one,
\* under every interleaving of play*() calls.
C1_AtMostOneLoaded ==
  \A m \in SingleVoiceManagers : Cardinality(LoadedOf(m)) <= 1

\* The last call issued on instance m.
LastCallOf(m) == CHOOSE c \in CallsOf(m) : \A x \in CallsOf(m) : x <= c

\* Call c of instance m settles in this step and leaves no call of m in
\* flight.
SettlesLast(m, c) ==
  /\ InFlightOf(m) = {c}
  /\ calls'[c].pc \in {"resolved", "rejected"}

\* C2: a later play*() call wins. If c1 then c2 are issued on one instance, c2
\* while c1 is in flight, and every platform operation succeeds, then once
\* both calls have completed the instance's soundRef holds the voice c2
\* created and the voice c1 created has been unloaded. Stated at the step
\* that settles the later of the two, c2 being the last call of the
\* instance: either c2 settles and c1 was in flight when c2 was issued, or
\* c1 settles after c2 has.
C2_LaterCallWins ==
  [][ \A m \in SingleVoiceManagers : \A c \in CallsOf(m) :
        ( /\ SettlesLast(m, c)
          /\ lifecycle[m] = "mounted"
          /\ \A x \in CallsOf(m) :
               calls'[x].failed = "none" /\ calls'[x].enabledAtCall )
        => LET c2 == LastCallOf(m)
               earlier == IF c = c2 THEN calls[c2].overlaps ELSE {c}
           IN  \A c1 \in earlier :
                 /\ soundRef'[<<m, "soundRef">>] = c2
                 /\ voices'[c1] = "unloaded" ]_vars

\* C3: within one instance at most one unloadAsync or createAsync of its
\* play*() calls is outstanding at any time, and no handle receives
\* unloadAsync twice.
C3_OneOperationAtATime ==
  /\ \A m \in Managers : Cardinality(InFlightOf(m)) <= 1
  /\ \A v \in CallIds : unloads[v] <= 1

\* C4: a play*() call made while the instance's enabled option is false
\* returns at once: it starts no unloadAsync and no createAsync, creates no
\* voice and leaves every voice reference as it was.
C4_DisabledGate ==
  [][ Len(calls') = Len(calls) + 1 =>
        LET n == calls'[Len(calls')]
        IN  ~enabled[n.mgr] =>
              /\ n.pc = "resolved"
              /\ n.failed = "none"
              /\ UNCHANGED <<soundRef, voices, unloads>> ]_vars

C4_Witness ==
  \E c \in DOMAIN calls :
    /\ ~calls[c].enabledAtCall
    /\ \E r \in RefsOf(calls[c].mgr) :
         soundRef[r] # 0 /\ voices[soundRef[r]] = "loaded"

\* C5: no play*() call ever rejects, whichever step fails (unloadAsync,
\* createAsync, or setAudioModeAsync at mount): a call whose operation
\* failed is resolved.
C5_NeverRejects ==
  \A c \in DOMAIN calls :
    /\ calls[c].pc # "rejected"
    /\ calls[c].failed # "none" => calls[c].pc = "resolved"

C5_Witness ==
  \E c1, c2 \in DOMAIN calls :
    /\ calls[c1].failed = "unload"
    /\ calls[c2].failed = "create"
    /\ audioMode[calls[c1].mgr] = "failed"
    /\ calls[c1].pc = "resolved" /\ calls[c2].pc = "resolved"

\* The teardown of instance m has settled: it has unmounted, none of its
\* calls is in flight and its cleanup's unloadAsync has not failed.
TeardownSettled(m) ==
  /\ lifecycle[m] = "disposed"
  /\ InFlightOf(m) = {}
  /\ \A r \in RefsOf(m) : cleanup[r].status \in {"none", "resolved"}

\* C6: once the owning component has unmounted and the teardown has settled,
\* the instance holds no loaded voice: the active voice was unloaded and the
\* play*() calls issued after the unmount or in flight at it were no-ops.
C6_TeardownLeavesNoVoice ==
  \A m \in Managers : TeardownSettled(m) => LoadedOf(m) = {}

\* C7: Unavailable is terminal. A play*() call made on an instance whose
\* setAudioModeAsync rejected at mount performs no platform call: it returns
\* at once without unloadAsync or createAsync.
C7_UnavailableIsTerminal ==
  [][ Len(calls') = Len(calls) + 1 =>
        LET n == calls'[Len(calls')]
        IN  audioMode[n.mgr] = "failed" =>
              /\ n.pc = "resolved"
              /\ UNCHANGED <<soundRef, voices, unloads>> ]_vars

\* The loaded voices of instance m after the step.
LoadedAfter(m) ==
  {v \in DOMAIN calls' : calls'[v].mgr = m /\ voices'[v] = "loaded"}

\* C8: every manager hook (useWorkoutSounds, useWaterSounds,
\* useRestTimerSound) owns at most one loaded voice: in any state where none
\* of the instance's play calls is in flight it holds at most one loaded
\* platform sound, as after playBeep() followed by playComplete(). Stated
\* for a call that ran alone: it was issued with no call of the instance in
\* flight, no call was issued after it, and the instance held at most one
\* loaded voice; when it settles the instance still holds at most one.
C8_AtMostOneVoicePerHook ==
  [][ \A m \in Managers : \A c \in CallsOf(m) :
        ( /\ SettlesLast(m, c)
          /\ c = LastCallOf(m)
          /\ calls[c].overlaps = {}
          /\ Cardinality(LoadedOf(m)) <= 1 )
        => Cardinality(LoadedAfter(m)) <= 1 ]_vars

\* A step of instance m: one of its play*() calls is issued or continues, it
\* mounts or unmounts, or its cleanup's unloadAsync settles.
StepOf(m) ==
  \/ lifecycle'[m] # lifecycle[m]
  \/ \E c \in DOMAIN calls' :
       /\ calls'[c].mgr = m
       /\ c \in DOMAIN calls => calls'[c] # calls[c]
  \/ \E r \in RefsOf(m) : cleanup'[r] # cleanup[r]

\* C9: voices are never shared across instances. A step of one instance (a
\* play*() call or its teardown) never unloads, replaces or changes the voice
\* reference or a voice of another instance.
C9_VoicesNotShared ==
  [][ \A m \in Managers :
        \/ /\ \A r \in RefsOf(m) : soundRef'[r] = soundRef[r]
           /\ \A v \in CallsOf(m) :
                voices'[v] = voices[v] /\ unloads'[v] = unloads[v]
        \/ StepOf(m) ]_vars

C9_Witness ==
  \E m1, m2 \in Managers :
    /\ m1 # m2
    /\ lifecycle[m1] = "disposed"
    /\ \E r \in RefsOf(m1) :
         cleanup[r].status = "resolved" /\ voices[cleanup[r].target] = "unloaded"
    /\ lifecycle[m2] = "mounted"
    /\ \E r \in RefsOf(m2) : soundRef[r] # 0 /\ voices[soundRef[r]] = "loaded"
    /\ \E c \in CallsOf(m2) : calls[c].pc = "unloading"

\* C10: each WAV asset is computed exactly once, at module initialization:
\* no mount, unmount, enabled toggle or play*() call runs a generator again,
\* and every createAsync is passed the value that one computation produced.
C10_AssetsComputedOnce ==
  /\ \A a \in WavAssets : generated[a] = 1
  /\ \A c \in DOMAIN calls : calls[c].uri \in {0, 1}

C10_Witness ==
  \E m1, m2 \in Managers :
    /\ lifecycle[m1] = "disposed"
    /\ lifecycle[m2] = "mounted"
    /\ \E c1, c2 \in DOMAIN calls :
         /\ calls[c1].mgr = m1 /\ calls[c2].mgr = m2
         /\ calls[c1].uri = 1 /\ calls[c2].uri = 1
         /\ voices[c1] = "loaded" /\ calls[c2].pc = "creating"
    /\ \E c \in DOMAIN calls : calls[c].pc = "unloading"

(***************************************************************************)
(* The WAV generators                                                      *)
(***************************************************************************)

\* Number of sample rates the generators are exercised with besides 22050.
MaxRateStep == 3

\* durationMs of generateDropWav.
durationMs == 120

\* noteMs and notes of generateGoalChimeWav.
noteMs == 150

\* Faulty variant of notes: the chime's last note left out.
notesWithoutG5 == <<523, 659>>

notes == <<523, 659, 784>>

\* The generator functions of the three hook files.
ToneGenerators ==
  {"useWorkoutSounds.generateWavBase64", "useWaterSounds.generateWavBase64",
   "useRestTimerSound.generateWavBase64"}

ChimeGenerators ==
  {"useWorkoutSounds.generateChimeBase64", "useWaterSounds.generateGoalChimeWav"}

Generators ==
  ToneGenerators \cup ChimeGenerators \cup {"useWaterSounds.generateDropWav"}

\* A generator call. volume is in twentieths (0.85 is 17); generators that take
\* no frequency or duration carry 0 there; useRestTimerSound's generator has
\* no volume parameter and multiplies by 0.8.
GenCall(fn, frequency, freq2, ms, volume, sampleRate) ==
  [fn |-> fn, frequency |-> frequency, freq2 |-> freq2, durationMs |-> ms,
   volume |-> volume, sampleRate |-> sampleRate]

\* The calls that compute the module-level WAV constants.
ModuleCalls ==
  [ COUNTDOWN_WAV |->
      GenCall("useWorkoutSounds.generateWavBase64", 330, 0, 100, 8, 22050),
    STRONG_BEEP_WAV |->
      GenCall("useWorkoutSounds.generateWavBase64", 660, 0, 200, 18, 22050),
    FAST_BEEP_WAV |->
      GenCall("useWorkoutSounds.generateWavBase64", 550, 0, 80, 15, 22050),
    CALM_TONE_WAV |->
      GenCall("useWorkoutSounds.generateWavBase64", 396, 0, 400, 10, 22050),
    SUCCESS_CHIME_WAV |->
      GenCall("useWorkoutSounds.generateChimeBase64", 523, 784, 600, 17, 22050),
    DROP_WAV |->
      GenCall("useWaterSounds.generateDropWav", 0, 0, 0, 15, 22050),
    GOAL_CHIME_WAV |->
      GenCall("useWaterSounds.generateGoalChimeWav", 0, 0, 0, 17, 22050),
    BEEP_WAV |->
      GenCall("useRestTimerSound.generateWavBase64", 440, 0, 150, 16, 22050),
    COMPLETE_WAV |->
      GenCall("useRestTimerSound.generateWavBase64", 880, 0, 500, 16, 22050) ]

\* Other arguments the generators accept: low sample rates, durations and
\* frequencies around zero, a volume above 1.0 (30 is 1.5).
TestRates == {50 * k : k \in 1..MaxRateStep}

TestDurations == {-150, -1, 0, 1, 7, 150, 999}

TestFrequencies == {-440, 0, 440}

TestVolumes == {16, 30}

TestCalls ==
  {GenCall(fn, f, 0, ms, IF fn = "useRestTimerSound.generateWavBase64" THEN 16 ELSE v, r) :
     fn \in ToneGenerators, f \in TestFrequencies, ms \in TestDurations,
     v \in TestVolumes, r \in TestRates}
  \cup
  {GenCall("useWorkoutSounds.generateChimeBase64", 523, 784, ms, v, r) :
     ms \in TestDurations, v \in TestVolumes, r \in TestRates}
  \cup
  {GenCall(fn, 0, 0, 0, v, r) :
     fn \in {"useWaterSounds.generateDropWav", "useWaterSounds.generateGoalChimeWav"},
     v \in TestVolumes, r \in TestRates}

GenCalls == {ModuleCalls[a] : a \in WavAssets} \cup TestCalls

Min(a, b) == IF a < b THEN a ELSE b

\* Math.floor(a / b) for b > 0.
Floor(a, b) == a \div b

\* Faulty variant of NumSamples: the tone's count rounded to nearest.
NumSamplesRounded(c) ==
  CASE c.fn \in ToneGenerators -> Floor(2 * c.sampleRate * c.durationMs + 1000, 2000)
    [] c.fn = "useWorkoutSounds.generateChimeBase64" ->
         Floor(c.sampleRate * c.durationMs, 2000) * 2
    [] c.fn = "useWaterSounds.generateDropWav" ->
         Floor(c.sampleRate * durationMs, 1000)
    [] OTHER -> Floor(c.sampleRate * noteMs * Len(notes), 1000)

\* numSamples (totalSamples in the goal chime) as each generator computes it.
NumSamples(c) ==
  CASE c.fn \in ToneGenerators -> Floor(c.sampleRate * c.durationMs, 1000)
    [] c.fn = "useWorkoutSounds.generateChimeBase64" ->
         Floor(c.sampleRate * c.durationMs, 2000) * 2
    [] c.fn = "useWaterSounds.generateDropWav" ->
         Floor(c.sampleRate * durationMs, 1000)
    [] OTHER -> Floor(c.sampleRate * noteMs * Len(notes), 1000)

\* The number of notes a chime generator lays out, 1 for the others.
NoteCount(c) ==
  CASE c.fn = "useWorkoutSounds.generateChimeBase64" -> 2
    [] c.fn = "useWaterSounds.generateGoalChimeWav" -> Len(notes)
    [] OTHER -> 1

\* The length of one note: halfSamples, samplesPerNote; numSamples for the
\* generators without notes.
NoteLength(c) ==
  CASE c.fn = "useWorkoutSounds.generateChimeBase64" ->
         Floor(c.sampleRate * c.durationMs, 2000)
    [] c.fn = "useWaterSounds.generateGoalChimeWav" ->
         Floor(c.sampleRate * noteMs, 1000)
    [] OTHER -> NumSamples(c)

\* noteIndex of sample k.
NoteIndex(c, k) ==
  CASE c.fn = "useWorkoutSounds.generateChimeBase64" ->
         IF k < NoteLength(c) THEN 0 ELSE 1
    [] c.fn = "useWaterSounds.generateGoalChimeWav" ->
         Min(Floor(k, NoteLength(c)), Len(notes) - 1)
    [] OTHER -> 0

\* localI of sample k.
LocalIndex(c, k) == k - NoteIndex(c, k) * NoteLength(c)

(***************************************************************************)
(* The DataView header                                                     *)
(***************************************************************************)

\* Byte k of the two's complement representation of v, least significant
\* first.
ByteOf(v, k) ==
  CASE k = 0 -> v % 256
    [] k = 1 -> (v \div 256) % 256
    [] k = 2 -> (v \div 65536) % 256
    [] OTHER -> (v \div 16777216) % 256

\* Faulty variant of setUint32: the littleEndian argument left out.
setUint32BigEndian(offset, v) ==
  [b \in offset..(offset + 3) |-> ByteOf(v, 3 - (b - offset))]

\* view.setUint32(offset, v, true): the bytes it stores.
setUint32(offset, v) ==
  [b \in offset..(offset + 3) |-> ByteOf(v, b - offset)]

\* view.setUint16(offset, v, true).
setUint16(offset, v) ==
  [b \in offset..(offset + 1) |-> ByteOf(v, b - offset)]

\* writeString / writeStr: one char code per byte.
writeString(offset, codes) ==
  [b \in offset..(offset + Len(codes) - 1) |-> codes[b - offset + 1]]

\* The 44 header bytes a generator writes for n samples at sampleRate: every
\* generator makes the same twelve writes.
Header(sampleRate, n) ==
  LET numChannels == 1
      bitsPerSample == 16
      byteRate == sampleRate * numChannels * (bitsPerSample \div 8)
      blockAlign == numChannels * (bitsPerSample \div 8)
      dataSize == n * blockAlign
      fileSize == 36 + dataSize
  IN  writeString(0, <<82, 73, 70, 70>>) @@ setUint32(4, fileSize)
      @@ writeString(8, <<87, 65, 86, 69>>)
      @@ writeString(12, <<102, 109, 116, 32>>) @@ setUint32(16, 16)
      @@ setUint16(20, 1) @@ setUint16(22, numChannels)
      @@ setUint32(24, sampleRate) @@ setUint32(28, byteRate)
      @@ setUint16(32, blockAlign) @@ setUint16(34, bitsPerSample)
      @@ writeString(36, <<100, 97, 116, 97>>) @@ setUint32(40, dataSize)

\* The little-endian fields read back from header bytes h.
getUint16(h, offset) == h[offset] + 256 * h[offset + 1]

getUint32(h, offset) ==
  h[offset] + 256 * h[offset + 1] + 65536 * h[offset + 2]
  + 16777216 * h[offset + 3]

(***************************************************************************)
(* The sample loop                                                         *)
(***************************************************************************)

\* Math.sin returns a value in [-1, 1]; the loop is followed for its extremes
\* and for zero. The drop generator's Math.exp(-progress * 5) lies in (0, 1]
\* and is followed at its upper end.
SineValues == {-1, 0, 1}

\* 20 * (fraction of the note length a fade covers).
FadeFraction20(fn) ==
  IF fn = "useWaterSounds.generateWavBase64" THEN 3 ELSE 2

\* Faulty variant of FadeCap: every fade capped at 50 samples.
FadeCapShort(fn) == 50

\* The cap on a fade's length, in samples.
FadeCap(fn) ==
  CASE fn = "useWorkoutSounds.generateWavBase64" -> 500
    [] fn = "useRestTimerSound.generateWavBase64" -> 500
    [] fn = "useWaterSounds.generateWavBase64" -> 400
    [] fn = "useWorkoutSounds.generateChimeBase64" -> 300
    [] OTHER -> 200

\* 20 * fadeLength for a note of len samples: Math.min(len * 0.1, 500) and
\* its variants.
Fade20(fn, len) == Min(len * FadeFraction20(fn), FadeCap(fn) * 20)

\* A gain as the pair <<numerator, denominator>>.
Times(g, h) == <<g[1] * h[1], g[2] * h[2]>>

\* The factor the fade statements multiply sample k's amplitude by; the drop
\* generator has no fades.
Gain(c, k) ==
  LET len == NoteLength(c)
      loc == LocalIndex(c, k)
      fade == Fade20(c.fn, len)
      fadeIn == IF 20 * loc < fade THEN <<20 * loc, fade>> ELSE <<1, 1>>
      fadeOut == IF 20 * loc > 20 * len - fade
                   THEN <<20 * (len - loc), fade>> ELSE <<1, 1>>
  IN  IF c.fn = "useWaterSounds.generateDropWav" THEN <<1, 1>>
      ELSE Times(fadeIn, fadeOut)

\* Faulty variant of SweepSpan: a sweep that ends below 400 Hz.
SweepSpanWide(fn) == 1500

\* The drop generator's sweep: freq = 1800 - progress * 1400.
SweepSpan(fn) == 1400

\* freq of sample k as <<numerator, denominator>>.
Freq(c, k) ==
  CASE c.fn = "useWaterSounds.generateDropWav" ->
         <<1800 * NumSamples(c) - SweepSpan(c.fn) * k, NumSamples(c)>>
    [] c.fn = "useWorkoutSounds.generateChimeBase64" ->
         <<IF NoteIndex(c, k) = 0 THEN c.frequency ELSE c.freq2, 1>>
    [] c.fn = "useWaterSounds.generateGoalChimeWav" ->
         <<notes[NoteIndex(c, k) + 1], 1>>
    [] OTHER -> <<c.frequency, 1>>

\* Faulty variant of Clamp: the product used as it is.
ClampMissing(p, q) == <<p, q>>

\* Math.max(-1, Math.min(1, x)) for x = p / q, q > 0.
Clamp(p, q) ==
  IF p > q THEN <<q, q>> ELSE IF p < -q THEN <<-q, q>> ELSE <<p, q>>

\* floor(p * 32767 / q) for 0 <= p, 0 < q, computed in three steps
\* (32767 = 181 * 181 + 6) to stay inside the machine integers.
Scale7fff(p, q) ==
  LET a == p * 181
      b == (a % q) * 181
  IN  (a \div q) * 181 + (b \div q) + (((b % q) + 6 * p) \div q)

\* The number setInt16 converts: x * 0x7fff with its fraction dropped.
Quantize(x) ==
  IF x[1] >= 0 THEN Scale7fff(x[1], x[2]) ELSE -Scale7fff(-x[1], x[2])

\* What setInt16 stores: the value modulo 2^16 as a signed 16-bit integer.
ToInt16(n) == ((n + 32768) % 65536) - 32768

\* The sample the loop writes at index k when Math.sin returns sine.
Sample(c, k, sine) ==
  LET g == Gain(c, k)
      arg == Quantize(Clamp(sine * g[1] * c.volume, g[2] * 20))
  IN  [index |-> k, localI |-> LocalIndex(c, k), gain |-> g, freq |-> Freq(c, k),
       arg |-> arg, stored |-> ToInt16(arg)]

(***************************************************************************)
(* A generator call                                                        *)
(***************************************************************************)

\* The argument checks a generator makes on entry: none.
Validates(c) == TRUE

\* new ArrayBuffer(44 + dataSize) throws a RangeError for a negative length,
\* and the header writes throw one when the buffer is shorter than 44 bytes.
HeaderFits(byteLength) == byteLength >= 44

\* A generator is called: it computes its sample count, allocates the buffer
\* and writes the header, or throws.
Generate(c) ==
  LET n == NumSamples(c)
      byteLength == 44 + n * 2
  IN
  /\ status = "idle"
  /\ gen' = c
  /\ numSamples' = n
  /\ IF Validates(c) /\ HeaderFits(byteLength)
       THEN /\ status' = "running"
            /\ view' = [byteLength |-> byteLength, header |-> Header(c.sampleRate, n)]
       ELSE /\ status' = "threw"
            /\ view' = NoView
  /\ UNCHANGED <<i, written>>
  /\ UNCHANGED <<playbackVars, timerVars>>

\* One iteration of the sample loop: view.setInt16(44 + i * 2, ...).
WriteSample(sine) ==
  /\ status = "running"
  /\ i < numSamples
  /\ written' = Sample(gen, i, sine)
  /\ i' = i + 1
  /\ UNCHANGED <<gen, status, numSamples, view>>
  /\ UNCHANGED <<playbackVars, timerVars>>

\* The loop has ended: the bytes are returned, base64 encoded.
Return ==
  /\ status = "running"
  /\ i >= numSamples
  /\ status' = "returned"
  /\ UNCHANGED <<gen, numSamples, view, i, written>>
  /\ UNCHANGED <<playbackVars, timerVars>>

NextWav ==
  \/ \E c \in GenCalls : Generate(c)
  \/ \E sine \in SineValues : WriteSample(sine)
  \/ Return

\* The generators run when a hook module is first loaded, before any hook
\* instance exists; the playback state stays as it starts.
InitWav == Init /\ scope = {"workout"} /\ audioSession = "available"

SpecWav == InitWav /\ [][NextWav]_vars

(***************************************************************************)
(* Properties of the WAV generators                                        *)
(***************************************************************************)

\* The samples a returned generator call has written: the loop ran i times,
\* its last iteration at index i - 1.
SamplesWritten == i

\* C11: the tone generator produces exactly floor(sampleRate*durationMs/1000)
\* samples for every positive sampleRate and durationMs; for sampleRate 22050
\* and durationMs 150 that is 3307 samples, the dataSize header field is 6614
\* and the fileSize header field is 6650.
C11_ToneSampleCount ==
  ( /\ status = "returned"
    /\ gen.fn \in ToneGenerators
    /\ gen.sampleRate > 0
    /\ gen.durationMs > 0 )
  => /\ 1000 * SamplesWritten <= gen.sampleRate * gen.durationMs
     /\ gen.sampleRate * gen.durationMs < 1000 * (SamplesWritten + 1)
     /\ SamplesWritten > 0 => written.index = SamplesWritten - 1
     /\ (gen.sampleRate = 22050 /\ gen.durationMs = 150)
          => /\ SamplesWritten = 3307
             /\ getUint32(view.header, 40) = 6614
             /\ getUint32(view.header, 4) = 6650

C11_Witness ==
  /\ status = "returned"
  /\ gen.fn \in ToneGenerators
  /\ gen.sampleRate = 22050
  /\ gen.durationMs = 150
  /\ SamplesWritten = 3307

\* C12: every generator (tone, two-tone chime, drop sweep, goal chime) writes
\* the same canonical 44-byte header for a buffer of N samples at sample rate
\* R: audio format 1, channel count 1, sample rate R, byte rate 2R, block
\* align 2, bits-per-sample 16, dataSize = 2N, fileSize = 36 + dataSize, total
\* byte length 44 + dataSize; reading the little-endian fields back at offsets
\* 4, 22, 24, 28, 32, 34 and 40 recovers exactly these values.
C12_CanonicalHeader ==
  status \in {"running", "returned"} =>
    LET h == view.header
        N == numSamples
        R == gen.sampleRate
    IN  /\ DOMAIN h = 0..43
        /\ getUint16(h, 20) = 1
        /\ getUint16(h, 22) = 1
        /\ getUint32(h, 24) = R
        /\ getUint32(h, 28) = 2 * R
        /\ getUint16(h, 32) = 2
        /\ getUint16(h, 34) = 16
        /\ getUint32(h, 40) = 2 * N
        /\ getUint32(h, 4) = 36 + 2 * N
        /\ view.byteLength = 44 + 2 * N
        /\ status = "returned" => SamplesWritten = N

C12_Witness ==
  /\ status = "returned"
  /\ gen = ModuleCalls.GOAL_CHIME_WAV
  /\ getUint32(view.header, 24) = 22050
  /\ getUint32(view.header, 40) = 2 * SamplesWritten
  /\ SamplesWritten > 0

\* C13: every sample written by any generator lies in [-32767, 32767], for
\* every volume value including volumes greater than 1.0: the product of the
\* enveloped sine and the volume is clamped to [-1, 1] before it is
\* multiplied by 0x7fff, so setInt16 stores the number it is given.
C13_SamplesInRange ==
  written # NoSample =>
    /\ written.arg \in -32767..32767
    /\ written.stored = written.arg

\* A sample whose product with a volume of 1.5 exceeds 1 and is clamped.
C13_Witness ==
  /\ written # NoSample
  /\ gen.volume > 20
  /\ written.gain[1] * gen.volume > written.gain[2] * 20
  /\ written.arg = -32767
  /\ written.stored = -32767

\* C14: a chime buffer's total sample count equals the sum of its notes'
\* sample counts, and the notes are laid back-to-back so that every sample
\* index of the buffer falls inside exactly one note's own window
\* [0, samplesPerNote); this holds for the three-note goal chime (150 ms per
\* note at 22050 Hz) and for the two-tone success chime (600 ms at 22050 Hz).
C14_ChimeNotesTile ==
  ( /\ status \in {"running", "returned"}
    /\ gen \in {ModuleCalls.GOAL_CHIME_WAV, ModuleCalls.SUCCESS_CHIME_WAV} )
  => /\ numSamples = NoteCount(gen) * NoteLength(gen)
     /\ written # NoSample => written.localI \in 0..(NoteLength(gen) - 1)

\* C15: chime duration additivity: the goal chime built from notes (523,150),
\* (659,150), (784,150) at 22050 Hz has a total sample count within one
\* sample of floor(22050*0.45), i.e. a total duration of 450 ms.
C15_GoalChimeDuration ==
  ( /\ status = "returned"
    /\ gen.fn = "useWaterSounds.generateGoalChimeWav"
    /\ gen.sampleRate = 22050 )
  => /\ SamplesWritten - Floor(22050 * 45, 100) \in -1..1
     /\ getUint32(view.header, 40) = 2 * SamplesWritten

C15_Witness ==
  /\ status = "returned"
  /\ gen.fn = "useWaterSounds.generateGoalChimeWav"
  /\ gen.sampleRate = 22050
  /\ notes = <<523, 659, 784>>
  /\ noteMs = 150
  /\ written.index = 9921

\* 20 * F for the Tone Synthesizer's fade length F = min(0.1 * len, 500).
ToneRuleFade20(len) == Min(2 * len, 500 * 20)

\* The Tone Synthesizer's envelope gain at index k of a tone of len samples:
\* k / F in the first F samples, (len - k) / F in the last F, 1 between.
ToneRuleGain(len, k) ==
  LET F20 == ToneRuleFade20(len)
  IN  IF 20 * k < F20 THEN <<20 * k, F20>>
      ELSE IF 20 * k > 20 * len - F20 THEN <<20 * (len - k), F20>>
      ELSE <<1, 1>>

\* Two gains are the same number.
SameGain(g, h) == g[1] * h[2] = h[1] * g[2]

\* C16: each chime note is enveloped by the Tone Synthesizer's rule applied to
\* that note's own length L: the fade-in covers the first min(0.1*L, 500)
\* samples of the note and the fade-out the last min(0.1*L, 500) samples of
\* the note, computed from the note-local index and not from the index in the
\* whole buffer.
C16_ChimeNoteEnvelope ==
  (written # NoSample /\ gen.fn \in ChimeGenerators) =>
    /\ Fade20(gen.fn, NoteLength(gen)) = ToneRuleFade20(NoteLength(gen))
    /\ SameGain(written.gain, ToneRuleGain(NoteLength(gen), written.localI))

\* The tone generators whose fade length is min(0.1 * N, 500).
FadedTones ==
  {"useWorkoutSounds.generateWavBase64", "useRestTimerSound.generateWavBase64"}

\* C17: tone fade invariant: for a tone of N samples with fade length
\* F = min(0.1*N, 500), the envelope gain is 0 at sample 0, rises linearly as
\* i/F for i < F, is exactly 1 for every i with F <= i <= N-F, falls as
\* (N-i)/F for i > N-F, and lies in [0, 1] for every sample index; the
\* fade-in and fade-out ranges never overlap.
C17_ToneFade ==
  (written # NoSample /\ gen.fn \in FadedTones) =>
    LET N == numSamples
        k == written.index
        F20 == ToneRuleFade20(N)
        g == written.gain
    IN  /\ k = 0 => g[1] = 0
        /\ 20 * k < F20 => SameGain(g, <<20 * k, F20>>)
        /\ (F20 <= 20 * k /\ 20 * k <= 20 * N - F20) => g = <<1, 1>>
        /\ 20 * k > 20 * N - F20 => SameGain(g, <<20 * (N - k), F20>>)
        /\ g[2] > 0 /\ 0 <= g[1] /\ g[1] <= g[2]
        /\ ~(20 * k < F20 /\ 20 * k > 20 * N - F20)

\* The last sample of COMPLETE_WAV, whose fades are capped at 500 samples.
C17_Witness ==
  /\ gen = ModuleCalls.COMPLETE_WAV
  /\ numSamples = 11025
  /\ written # NoSample
  /\ written.index = 11024
  /\ written.gain = <<20, 10000>>

\* C18: sweep monotonicity: in the water-drop generator (120 ms at 22050 Hz,
\* N = 2646 samples) the instantaneous frequency of sample i is
\* 1800 - 1400*i/N; it is 1800 at i = 0, strictly decreasing in i, and stays
\* above 400 for every i < N without being clamped. Stated for every
\* iteration of the drop generator's loop.
C18_SweepMonotone ==
  [][ (gen.fn = "useWaterSounds.generateDropWav" /\ written' # written) =>
        LET N == numSamples
            k == written'.index
            f == written'.freq
        IN  /\ gen.sampleRate = 22050 => N = 2646
            /\ k < N
            /\ f = <<1800 * N - 1400 * k, N>>
            /\ k = 0 => f[1] = 1800 * f[2]
            /\ f[1] > 400 * f[2]
            /\ written # NoSample =>
                 /\ written.freq[2] = f[2]
                 /\ f[1] < written.freq[1] ]_vars

\* The last sample of DROP_WAV: above 400 Hz and below 401 Hz.
C18_Witness ==
  /\ gen = ModuleCalls.DROP_WAV
  /\ written # NoSample
  /\ written.index = 2645
  /\ written.freq[1] > 400 * 2646
  /\ written.freq[1] < 401 * 2646

\* C19: invalid synthesis parameters fail loudly: calling a tone generator
\* with a zero or negative frequency, or a zero or negative duration, raises
\* an error (assertion) rather than returning a WAV asset.
C19_InvalidParametersThrow ==
  ( /\ gen # NoCall
    /\ gen.fn \in ToneGenerators
    /\ (gen.frequency <= 0 \/ gen.durationMs <= 0) )
  => status = "threw"

(***************************************************************************)
(* The preference and the managers                                         *)
(***************************************************************************)

\* The managers the screens mount.
ScreenManagers == {"workout", "waterHome", "waterTracker"}

\* C20: all managers read the same underlying sound-effects preference: for
\* every value of the user's soundEffects preference, the enabled flag of
\* every mounted manager (the workout manager of ActiveWorkoutScreen and the
\* water managers of HomeScreen and WaterTrackerScreen) equals that
\* preference, so with the preference off no screen creates a voice.
C20_SamePreference ==
  \A m \in ScreenManagers :
    lifecycle[m] = "mounted" => (enabled[m] <=> soundEffects = "on")

(***************************************************************************)
(* Diagnostics and the voice reference                                     *)
(***************************************************************************)

\* The diagnostic lines call c has written by the time it settled.
DiagnosticLines(c) ==
  IF calls[c].failed = "none" THEN 0 ELSE CatchLogs(calls[c].failed)

\* C21: every playback failure caught inside a play*() call (unloadAsync or
\* createAsync rejecting) is logged to a diagnostic sink exactly once before
\* it is discarded, and is never propagated to the caller.
C21_FailuresLoggedOnce ==
  \A c \in DOMAIN calls :
    calls[c].failed # "none" =>
      /\ DiagnosticLines(c) = 1
      /\ calls[c].pc = "resolved"

\* C22: the voice reference of a manager is never stale: every ref cell is
\* null or names a platform sound that is loaded, also after a call whose
\* unloadAsync succeeded and whose createAsync failed, and after the unmount
\* cleanup.
C22_VoiceReferenceNeverStale ==
  \A r \in Cells : soundRef[r] # 0 => voices[soundRef[r]] = "loaded"

(***************************************************************************)
(* useTimer                                                                *)
(*                                                                         *)
(* The repository holds two versions of the hook: hooks/useTimer.ts, and   *)
(* the one in hooks/useWaterSounds.ts (lines 208-332) that adds the onTick *)
(* option and setTime. A state update made by a handler or a callback is   *)
(* queued; Render commits the queue and runs the effects whose             *)
(* dependencies changed, in declaration order. A commit takes far less     *)
(* than the interval period of 1000 ms and than the time between two       *)
(* presses, so a handler finds the previous update committed.              *)
(***************************************************************************)

\* The largest time a timer is followed to, and the handlers of one run.
MaxTime == 4

MaxHandlers == 3

\* The two versions of the hook.
Copies == {"useTimer.ts", "useWaterSounds.ts"}

\* The version with options.onTick, onTickRef and setTime.
HasOnTick(copy) == copy = "useWaterSounds.ts"

\* The version ActiveWorkoutScreen is written against: it passes onTick and
\* calls restTimer.setTime.
ScreenCopies == {copy \in Copies : HasOnTick(copy)}

\* The countdown lengths and initial times followed; a cue differs above 3.
TestTimes == {0, 1, MaxTime}

\* The timers of ActiveWorkoutScreen.
workoutTimer(copy) ==
  [copy |-> copy, use |-> "workoutTimer", initialTime |-> 0,
   countdown |-> FALSE, autoStart |-> TRUE]

restTimer(copy) ==
  [copy |-> copy, use |-> "restTimer", initialTime |-> 0,
   countdown |-> TRUE, autoStart |-> FALSE]

\* The timers followed: those of the screen, and a component that calls the
\* hook's functions in any order.
TimerOptions ==
  {workoutTimer(c) : c \in ScreenCopies} \cup {restTimer(c) : c \in ScreenCopies}
  \cup [copy : Copies, use : {"hook"}, initialTime : TestTimes,
        countdown : BOOLEAN, autoStart : {FALSE}]

\* useState(false) for isRunning: the hook destructures initialTime,
\* countdown, onComplete (and onTick) and never reads autoStart.
InitialRunning(o) == FALSE

(***************************************************************************)
(* The functions the hook returns, as changes of its cells                 *)
(***************************************************************************)

\* if (intervalRef.current) { clearInterval(...); intervalRef.current = null }
ClearInterval(h) ==
  IF h.intervalRef # 0
    THEN [h EXCEPT !.intervals = @ \ {h.intervalRef}, !.intervalRef = 0]
    ELSE h

start(h) == [h EXCEPT !.completedRef = FALSE, !.runningState = TRUE]

pause(h) == ClearInterval([h EXCEPT !.runningState = FALSE])

reset(h, o) ==
  ClearInterval([h EXCEPT !.runningState = FALSE, !.completedRef = FALSE,
                          !.timeState = o.initialTime])

stop(h, o) ==
  ClearInterval([h EXCEPT !.runningState = FALSE, !.completedRef = FALSE,
                          !.timeState = o.initialTime])

setTime(h, newTime) ==
  [h EXCEPT !.timeState = newTime, !.completedRef = FALSE]

\* The calls a component can make on the hook's return value.
CallsOn(o) ==
  [fn : {"start", "pause", "reset", "stop"}, arg : {0}]
  \cup (IF HasOnTick(o.copy) THEN [fn : {"setTime"}, arg : TestTimes] ELSE {})

\* One call.
Call(h, o, c) ==
  CASE c.fn = "start" -> start(h)
    [] c.fn = "pause" -> pause(h)
    [] c.fn = "reset" -> reset(h, o)
    [] c.fn = "stop" -> stop(h, o)
    [] c.fn = "setTime" -> setTime(h, c.arg)

\* The calls of one event handler, in order.
RECURSIVE CallAll(_, _, _)
CallAll(h, o, cs) ==
  IF cs = <<>> THEN h ELSE CallAll(Call(h, o, Head(cs)), o, Tail(cs))

\* What the calls of a handler make of the latest run.
RECURSIVE RunAfter(_, _)
RunAfter(r, cs) ==
  IF cs = <<>> THEN r
  ELSE RunAfter(CASE Head(cs).fn = "start" -> "running"
                  [] Head(cs).fn = "setTime" -> r
                  [] OTHER -> IF r = "running" THEN "interrupted" ELSE r,
                Tail(cs))

\* The value the calls of a handler last set time to.
RECURSIVE TopAfter(_, _, _)
TopAfter(n, o, cs) ==
  IF cs = <<>> THEN n
  ELSE TopAfter(CASE Head(cs).fn = "setTime" -> Head(cs).arg
                  [] Head(cs).fn \in {"reset", "stop"} -> o.initialTime
                  [] OTHER -> n,
                o, Tail(cs))

\* The handlers of the component that calls the hook in any order: one call,
\* or two calls before the next render.
HandlerCalls(o) ==
  {<<c>> : c \in CallsOn(o)} \cup {<<c, d>> : c \in CallsOn(o), d \in CallsOn(o)}

Starts(cs) == \E k \in DOMAIN cs : cs[k].fn = "start"

(***************************************************************************)
(* The effects                                                             *)
(***************************************************************************)

\* setInterval's return value: an id no scheduled interval has.
NewInterval(h) ==
  CHOOSE id \in 1..(Cardinality(h.intervals) + 1) :
    /\ id \notin h.intervals
    /\ \A x \in 1..(id - 1) : x \in h.intervals

\* Faulty variant of TickCleanup: the ref is cleared and the interval is not.
TickCleanupKeepsInterval(h) == [h EXCEPT !.intervalRef = 0]

\* The cleanup the tick effect returns.
TickCleanup(h) == ClearInterval(h)

\* The tick effect for a render with isRunning = r.
TickEffect(h, r) ==
  IF ~r THEN h
  ELSE LET id == NewInterval(h)
       IN [h EXCEPT !.intervalRef = id, !.intervals = @ \cup {id}]

\* Faulty variant of TickUpdater: the countdown is not held at 0.
TickUpdaterUnclamped(o, prevTime) ==
  IF o.countdown THEN prevTime - 1 ELSE prevTime + 1

\* The updater the interval callback passes to the time setter.
TickUpdater(o, prevTime) ==
  IF o.countdown
    THEN (IF prevTime > 0 THEN prevTime - 1 ELSE 0)
    ELSE prevTime + 1

\* The onTick effect calls onTickRef.current(time).
OnTickFires(o, r) == HasOnTick(o.copy) /\ r

\* Faulty variant of Completes: the test without isRunning.
CompletesWhenStopped(o, t, r, completed) ==
  o.countdown /\ t = 0 /\ ~completed

\* The test of the completion effect.
Completes(o, t, r, completed) ==
  o.countdown /\ r /\ t = 0 /\ ~completed

\* Faulty variant of CompletionEffect: setIsRunning(false) is missing.
CompletionEffectKeepsRunning(h) == [h EXCEPT !.completedRef = TRUE]

\* The body of the completion effect up to the onComplete call.
CompletionEffect(h) == [h EXCEPT !.completedRef = TRUE, !.runningState = FALSE]

(***************************************************************************)
(* ActiveWorkoutScreen's callbacks                                         *)
(***************************************************************************)

\* Faulty variant of handleRestTick: currentTime >= 0 in the first test.
handleRestTickAtZero(currentTime) ==
  IF currentTime >= 0 /\ currentTime <= 3 THEN <<"playLastThree">>
  ELSE IF currentTime > 3 THEN <<"playCountdown">>
  ELSE <<>>

\* handleRestTick: the cue trigger it calls for a timer value, if any.
handleRestTick(currentTime) ==
  IF currentTime > 0 /\ currentTime <= 3 THEN <<"playLastThree">>
  ELSE IF currentTime > 3 THEN <<"playCountdown">>
  ELSE <<>>

\* handleRestComplete calls playNextSet.
handleRestComplete == <<"playNextSet">>

\* What the onTick option does with a timer value: the screen's rest timer
\* passes handleRestTick, the other component records the call, the elapsed
\* timer passes none.
onTick(o, t) ==
  CASE o.use = "restTimer" -> handleRestTick(t)
    [] o.use = "hook" -> <<"onTick">>
    [] OTHER -> <<>>

\* What the onComplete option does.
onComplete(o) ==
  CASE o.use = "restTimer" -> handleRestComplete
    [] o.use = "hook" -> <<"onComplete">>
    [] OTHER -> <<>>

(***************************************************************************)
(* The component with the timer                                            *)
(***************************************************************************)

\* A state update is queued and not yet committed.
Dirty == hook.timeState # time \/ hook.runningState # isRunning

\* The effects of one commit, in declaration order: the tick effect (deps
\* isRunning, countdown) with the cleanup of its previous run, the onTick
\* effect (deps time, isRunning), the completion effect (deps time,
\* countdown, isRunning, onComplete). first: the mount; newCallback: the
\* parent passed an onComplete of a new identity.
Effects(h, prevTime, prevRunning, first, newCallback) ==
  LET t == h.timeState
      r == h.runningState
      tickDep == first \/ r # prevRunning
      stateDep == first \/ t # prevTime \/ r # prevRunning
      h1 == IF tickDep
              THEN TickEffect(IF ~first /\ prevRunning THEN TickCleanup(h) ELSE h, r)
              ELSE h
      ticks == IF stateDep /\ OnTickFires(options, r) THEN onTick(options, t) ELSE <<>>
      done == (stateDep \/ newCallback) /\ Completes(options, t, r, h1.completedRef)
  IN [hook |-> IF done THEN CompletionEffect(h1) ELSE h1,
      called |-> ticks \o (IF done THEN onComplete(options) ELSE <<>>),
      done |-> done]

\* The component mounts: useTimer's first render and its effects.
MountTimer ==
  LET h0 == [NoHook EXCEPT !.timeState = options.initialTime,
                           !.runningState = InitialRunning(options)]
      e == Effects(h0, h0.timeState, h0.runningState, TRUE, TRUE)
  IN
  /\ life = "unmounted"
  /\ options.use # "none"
  /\ life' = "mounted"
  /\ time' = h0.timeState
  /\ isRunning' = h0.runningState
  /\ hook' = e.hook
  /\ out' = e.called
  /\ run' = IF e.done THEN "completed" ELSE "none"
  /\ top' = options.initialTime
  /\ UNCHANGED <<options, isResting, handlers>>
  /\ UNCHANGED <<playbackVars, wavVars>>

\* React commits the queued updates (or the parent renders again with new
\* callbacks) and the effects run.
Render(newCallback) ==
  LET e == Effects(hook, time, isRunning, FALSE, newCallback)
  IN
  /\ life = "mounted"
  /\ Dirty \/ newCallback
  /\ time' = hook.timeState
  /\ isRunning' = hook.runningState
  /\ hook' = e.hook
  /\ out' = out \o e.called
  /\ run' = IF e.done THEN "completed" ELSE run
  /\ isResting' = IF e.done /\ options.use = "restTimer" THEN FALSE ELSE isResting
  /\ UNCHANGED <<options, life, top, handlers>>
  /\ UNCHANGED <<playbackVars, wavVars>>

\* A scheduled interval fires: its callback queues the updater. The update
\* of the previous tick, 1000 ms earlier, has been committed.
Tick ==
  /\ life = "mounted"
  /\ hook.timeState = time
  /\ hook.intervals # {}
  /\ options.countdown \/ hook.timeState < MaxTime
  /\ hook' = [hook EXCEPT !.timeState = TickUpdater(options, @)]
  /\ UNCHANGED <<options, life, time, isRunning, isResting, out, run, top, handlers>>
  /\ UNCHANGED <<playbackVars, wavVars>>

\* An event handler of a component that calls the functions the hook returns.
Handler(cs) ==
  /\ options.use = "hook"
  /\ life = "mounted"
  /\ ~Dirty
  /\ handlers < MaxHandlers
  /\ cs \in HandlerCalls(options)
  /\ hook' = CallAll(hook, options, cs)
  /\ run' = RunAfter(run, cs)
  /\ top' = TopAfter(top, options, cs)
  /\ out' = IF Starts(cs) THEN <<>> ELSE out
  /\ handlers' = handlers + 1
  /\ UNCHANGED <<options, life, time, isRunning, isResting>>
  /\ UNCHANGED <<playbackVars, wavVars>>

\* Complete Set is pressed (the button is disabled while resting): a rest of
\* currentExercise.restTime seconds starts when that is above 0.
handleCompleteSet(restTime) ==
  /\ options.use = "restTimer"
  /\ life = "mounted"
  /\ ~Dirty
  /\ ~isResting
  /\ handlers < MaxHandlers
  /\ IF restTime > 0
       THEN /\ hook' = start(setTime(hook, restTime))
            /\ isResting' = TRUE
            /\ out' = <<"playRestStart">>
            /\ run' = "running"
            /\ top' = restTime
       ELSE UNCHANGED <<hook, isResting, out, run, top>>
  /\ handlers' = handlers + 1
  /\ UNCHANGED <<options, life, time, isRunning>>
  /\ UNCHANGED <<playbackVars, wavVars>>

\* Skip Rest is pressed on the rest card.
handleSkipRest ==
  /\ options.use = "restTimer"
  /\ life = "mounted"
  /\ ~Dirty
  /\ isResting
  /\ handlers < MaxHandlers
  /\ hook' = stop(hook, options)
  /\ isResting' = FALSE
  /\ run' = RunAfter(run, <<[fn |-> "stop", arg |-> 0]>>)
  /\ top' = options.initialTime
  /\ handlers' = handlers + 1
  /\ UNCHANGED <<options, life, time, isRunning, out>>
  /\ UNCHANGED <<playbackVars, wavVars>>

\* Next Exercise is pressed.
handleNextExercise ==
  /\ options.use = "restTimer"
  /\ life = "mounted"
  /\ ~Dirty
  /\ handlers < MaxHandlers
  /\ hook' = stop(hook, options)
  /\ isResting' = FALSE
  /\ run' = RunAfter(run, <<[fn |-> "stop", arg |-> 0]>>)
  /\ top' = options.initialTime
  /\ handlers' = handlers + 1
  /\ UNCHANGED <<options, life, time, isRunning, out>>
  /\ UNCHANGED <<playbackVars, wavVars>>

\* The workout is ended: restTimer.stop() and workoutTimer.pause().
handleEndWorkout ==
  /\ options.use \in {"restTimer", "workoutTimer"}
  /\ life = "mounted"
  /\ ~Dirty
  /\ handlers < MaxHandlers
  /\ IF options.use = "restTimer"
       THEN /\ hook' = stop(hook, options)
            /\ run' = RunAfter(run, <<[fn |-> "stop", arg |-> 0]>>)
       ELSE /\ hook' = pause(hook)
            /\ run' = "interrupted"
  /\ top' = options.initialTime
  /\ handlers' = handlers + 1
  /\ UNCHANGED <<options, life, time, isRunning, isResting, out>>
  /\ UNCHANGED <<playbackVars, wavVars>>

\* The component unmounts: the cleanup of the tick effect's latest run.
UnmountTimer ==
  /\ life = "mounted"
  /\ ~Dirty
  /\ life' = "gone"
  /\ hook' = IF isRunning THEN TickCleanup(hook) ELSE hook
  /\ run' = IF run = "running" THEN "interrupted" ELSE run
  /\ UNCHANGED <<options, time, isRunning, isResting, out, top, handlers>>
  /\ UNCHANGED <<playbackVars, wavVars>>

NextTimer ==
  \/ MountTimer
  \/ \E newCallback \in BOOLEAN : Render(newCallback)
  \/ Tick
  \/ \E cs \in UNION {HandlerCalls(o) : o \in TimerOptions} : Handler(cs)
  \/ \E restTime \in TestTimes : handleCompleteSet(restTime)
  \/ handleSkipRest
  \/ handleNextExercise
  \/ handleEndWorkout
  \/ UnmountTimer

\* One component with a timer, nothing else.
InitTimer ==
  /\ InitPlayback
  /\ soundEffects = "on"
  /\ scope = {"workout"}
  /\ audioSession = "available"
  /\ options \in TimerOptions
  /\ life = "unmounted"
  /\ time = 0
  /\ isRunning = FALSE
  /\ hook = NoHook
  /\ isResting = FALSE
  /\ out = <<>>
  /\ run = "none"
  /\ top = 0
  /\ handlers = 0

SpecTimer == InitTimer /\ [][NextTimer]_vars

\* The platform keeps delivering the ticks of a scheduled interval and React
\* commits every queued update.
SpecTimerFair ==
  /\ InitTimer
  /\ [][NextTimer]_vars
  /\ WF_vars(Tick)
  /\ WF_vars(\E newCallback \in BOOLEAN : Render(newCallback))

(***************************************************************************)
(* Properties of useTimer                                                  *)
(***************************************************************************)

\* How often onComplete has been invoked since the latest start().
CompletionsIn(s) ==
  Cardinality({k \in DOMAIN s : s[k] \in {"onComplete", "playNextSet"}})

\* C23: in countdown mode onComplete fires at most once per countdown run:
\* between two consecutive start() calls it is invoked at most once, whatever
\* ticks, renders and new onComplete identities occur, and once it has been
\* invoked isRunning is false (queued at once, committed by the next render).
C23_OnCompleteOncePerRun ==
  options.countdown =>
    /\ CompletionsIn(out) <= 1
    /\ CompletionsIn(out) = 1 =>
         /\ ~hook.runningState
         /\ ~Dirty => ~isRunning

C23_Witness ==
  /\ options.use = "hook"
  /\ options.countdown
  /\ run = "completed"
  /\ top > 0
  /\ CompletionsIn(out) = 1
  /\ ~Dirty
  /\ ~isRunning

\* C24: the elapsed workout timer of ActiveWorkoutScreen, created with
\* autoStart: true, counts from the mount on: once the mount has committed,
\* and until the workout is ended, workoutTimer.isRunning is true without a
\* start() call and an interval is scheduled that raises time every second.
C24_AutoStartCounts ==
  (/\ options.use = "workoutTimer"
   /\ options.autoStart
   /\ life = "mounted"
   /\ run = "none"
   /\ ~Dirty)
  => isRunning /\ hook.intervals # {}

\* C25: useTimer never leaks an interval: never two intervals scheduled for
\* one instance, none after the component has unmounted, none while the
\* isRunning the hook returns is false.
C25_NoIntervalLeak ==
  /\ Cardinality(hook.intervals) <= 1
  /\ life = "gone" => hook.intervals = {}
  /\ ~isRunning => hook.intervals = {}

C25_Witness ==
  /\ life = "gone"
  /\ isRunning
  /\ run = "interrupted"
  /\ hook.intervals = {}
  /\ time > options.initialTime

\* C26: whenever React has committed the pending updates and run the
\* effects, isRunning = true implies that an interval is scheduled, also
\* after several calls (pause() then start()) made in one event handler.
C26_RunningTimerTicks ==
  (life = "mounted" /\ ~Dirty /\ isRunning) => hook.intervals # {}

\* C27: in a countdown whose time was set to n >= 0, time is in 0..n in
\* every state; a tick lowers it by exactly 1 above 0 and leaves it at 0
\* otherwise; in count-up mode a tick raises it by exactly 1; a tick changes
\* time only while isRunning is true.
C27_TickStep ==
  [][/\ options.countdown =>
          /\ hook'.timeState \in 0..top'
          /\ ~Dirty' => time' \in 0..top'
     /\ Tick =>
          /\ hook'.timeState =
               (IF options.countdown
                  THEN (IF hook.timeState > 0 THEN hook.timeState - 1 ELSE 0)
                  ELSE hook.timeState + 1)
          /\ hook'.timeState # hook.timeState => isRunning]_vars

C27_Witness ==
  /\ options.countdown
  /\ isRunning
  /\ ~Dirty
  /\ top = MaxTime
  /\ time = 1

\* C28: a countdown started from n > 0 that is not paused, stopped, reset or
\* unmounted eventually reaches time 0, invokes onComplete and sets
\* isRunning to false, given that the ticks of a scheduled interval keep
\* being delivered.
C28_CountdownCompletes ==
  (run = "running" /\ options.countdown /\ hook.timeState > 0)
    ~> (\/ run = "interrupted"
        \/ run = "completed" /\ time = 0 /\ ~isRunning)

\* The hook's calls of any handler.
AllHandlerCalls == UNION {HandlerCalls(o) : o \in TimerOptions}

\* C29: stop() and reset() never complete a countdown: after a handler that
\* ends with either call isRunning is false and time is initialTime (both
\* queued) and the commit that follows invokes no onComplete, also with
\* initialTime 0 in countdown mode as for the rest timer, where Skip Rest
\* and Next Exercise never reach handleRestComplete and playNextSet.
C29_StopNeverCompletes ==
  [][/\ (\/ \E cs \in AllHandlerCalls :
               Handler(cs) /\ cs[Len(cs)].fn \in {"stop", "reset"}
         \/ handleSkipRest
         \/ handleNextExercise)
        => /\ ~hook'.runningState
           /\ hook'.timeState = options.initialTime
           /\ CompletionsIn(out') <= CompletionsIn(out)
     /\ ~hook.runningState => CompletionsIn(out') <= CompletionsIn(out)]_vars

C29_Witness ==
  /\ options.use = "restTimer"
  /\ life = "mounted"
  /\ run = "interrupted"
  /\ Len(out) >= 2
  /\ CompletionsIn(out) = 0
  /\ ~Dirty
  /\ time = 0
  /\ ~isResting

\* The cue triggers of a whole rest of n seconds, as C30 gives them.
ExpectedCues(n) ==
  <<"playRestStart">>
  \o [k \in 1..n |-> IF n + 1 - k > 3 THEN "playCountdown" ELSE "playLastThree"]
  \o <<"playNextSet">>

IsPrefix(s, t) == Len(s) <= Len(t) /\ SubSeq(t, 1, Len(s)) = s

\* C30: during a rest countdown started from n >= 1 on ActiveWorkoutScreen
\* and not skipped, the cue triggers come in this order: playRestStart once,
\* one tick cue for each timer value n, n-1, ..., 1 (playCountdown above 3,
\* playLastThree for 1 to 3), none for 0, and last playNextSet exactly once.
C30_RestCueOrder ==
  (options.use = "restTimer" /\ run \in {"running", "completed"} /\ top > 0)
  => /\ IsPrefix(out, ExpectedCues(top))
     /\ run = "completed" <=> out = ExpectedCues(top)
     /\ (run = "running" /\ ~Dirty) => Len(out) = 1 + (top - time + 1)

C30_Witness ==
  /\ options.use = "restTimer"
  /\ run = "completed"
  /\ top = MaxTime
  /\ out = ExpectedCues(MaxTime)
  /\ ~Dirty

====
